---- MODULE Spec2Model ----
(***************************************************************************)
(* The CustomBorders plugin (src/plugins/customBorders/customBorders.js).  *)
(*                                                                         *)
(* Three representations of one fact are kept by the plugin:               *)
(*   savedBorders      the plugin's own list of border objects,            *)
(*   cellMeta          the grid's per-cell metadata slot `borders`,        *)
(*   customSelections  the grid's highlight collection (one entry per id). *)
(*                                                                         *)
(* Border objects are JavaScript objects, held by reference.  The plugin   *)
(* hands the same object to setCellMeta and to savedBorders, and setBorder *)
(* writes into the object it reads back from the metadata.  The variable   *)
(* `shared` records, per cell, whether the metadata slot and the           *)
(* savedBorders element of that cell are one object, so that such a write  *)
(* is seen through both.                                                   *)
(***************************************************************************)
EXTENDS Integers, Sequences, FiniteSets, TLC

\* Bounds of the model: the grid is (MaxRow+1) x (MaxCol+1) cells; a behaviour of
\* Spec makes at most MaxOps calls, one of SpecLong at most MaxLongOps calls.
MaxRow == 2
MaxCol == 2
MaxOps == 2
MaxLongOps == 3

VARIABLES
  savedBorders,      \* this.savedBorders: sequence of border objects
  cellMeta,          \* hot.getCellMeta(r, c).borders, for the cells that have it
  customSelections,  \* hot.selection.highlight.customSelections
  shared,            \* cells whose metadata object is the savedBorders object
  settings,          \* hot.getSettings().customBorders
  scenario,          \* progress of a menu add/add/remove/remove sequence on one cell
  before,            \* the three stores as they were when the last call began
  lastCall,          \* the call that produced this state
  nOps               \* number of calls made

vars == <<savedBorders, cellMeta, customSelections, shared, settings,
          scenario, before, lastCall, nOps>>

Rows  == 0..MaxRow
Cols  == 0..MaxCol
Cells == Rows \X Cols
Edges == {"top", "right", "bottom", "left"}

Min(a, b) == IF a <= b THEN a ELSE b
Max(a, b) == IF a >= b THEN a ELSE b

(***************************************************************************)
(* Values an edge slot can hold.  `has` is the set of own properties of    *)
(* the object; a property outside `has` reads as undefined.  kind "string" *)
(* is the empty string of the documented `top: ''`.                        *)
(***************************************************************************)
Obj(has, hide, width, color) ==
  [kind |-> "object", has |-> has, hide |-> hide, width |-> width, color |-> color]

EmptyObject == Obj({}, FALSE, 0, "")
EmptyString == [kind |-> "string", has |-> {}, hide |-> FALSE, width |-> 0, color |-> ""]
RedStyle    == Obj({"width", "color"}, FALSE, 2, "red")

\* value.hide, as a condition
Hide(v) == v.kind = "object" /\ "hide" \in v.has /\ v.hide

\* a truthy value that is an object with at least one own property
IsNonEmptyObject(v) == v.kind = "object" /\ v.has # {}

\* own properties of `over` laid over those of `base`
Merge(base, over) ==
  Obj(base.has \cup over.has,
      IF "hide"  \in over.has THEN over.hide  ELSE base.hide,
      IF "width" \in over.has THEN over.width ELSE base.width,
      IF "color" \in over.has THEN over.color ELSE base.color)

\* ---- utils (border descriptor builder)

createId(row, col) == <<row, col>>

createSingleEmptyBorder == Obj({"hide"}, TRUE, 0, "")

createDefaultCustomBorder == Obj({"hide", "width", "color"}, FALSE, 1, "#000")

createEmptyBorders(row, col) ==
  [ id     |-> createId(row, col),
    border |-> TRUE,                 \* the `border` property is defined
    row    |-> row,
    col    |-> col,
    top    |-> createSingleEmptyBorder,
    right  |-> createSingleEmptyBorder,
    bottom |-> createSingleEmptyBorder,
    left   |-> createSingleEmptyBorder ]

\* A descriptor is its own edge properties: a function from the edges it names.
\* NoDescriptor stands for an absent (undefined) borderObject.
NoDescriptor == [defined |-> FALSE, edges |-> <<>>]
Descriptor(edges) == [defined |-> TRUE, edges |-> edges]

hasOwnProperty(descriptor, key) == descriptor.defined /\ key \in DOMAIN descriptor.edges

ExtendEdge(current, descriptor, e) ==
  IF hasOwnProperty(descriptor, e)
    THEN IF IsNonEmptyObject(descriptor.edges[e])
           THEN Merge(createDefaultCustomBorder, descriptor.edges[e])
           ELSE createDefaultCustomBorder
    ELSE current

extendDefaultBorder(border, descriptor) ==
  [border EXCEPT !.top    = ExtendEdge(@, descriptor, "top"),
                 !.right  = ExtendEdge(@, descriptor, "right"),
                 !.bottom = ExtendEdge(@, descriptor, "bottom"),
                 !.left   = ExtendEdge(@, descriptor, "left")]

\* the edge properties of a border object, read as a descriptor
AsDescriptor(border) == Descriptor([e \in Edges |-> border[e]])

\* ---- the three stores, threaded through the plugin's methods as one value
\*      s = [saved, meta, sel, shared]

NullRange == <<>>
CellRange(cell) == <<cell>>

getBordersMeta(meta, cell) == meta[cell]                 \* <<>> when undefined
hasBordersMeta(meta, cell) == meta[cell] # <<>>
setCellMeta(meta, cell, border) == [meta EXCEPT ![cell] = <<border>>]
removeCellMeta(meta, cell) == [meta EXCEPT ![cell] = <<>>]

\* Array.prototype.indexOf over the ids: the first index, 0 when there is none
RECURSIVE IndexFrom(_, _, _)
IndexFrom(seq, id, i) ==
  IF i > Len(seq) THEN 0
  ELSE IF seq[i].id = id THEN i
  ELSE IndexFrom(seq, id, i + 1)

IndexOfId(seq, id) == IndexFrom(seq, id, 1)

\* Array.prototype.splice(index, 1)
Splice(seq, i) == SubSeq(seq, 1, i - 1) \o SubSeq(seq, i + 1, Len(seq))

countHide(border) ==
  \* Object.values(border): id, border, row and col have no truthy `hide`
  Cardinality({e \in Edges : Hide(border[e])})

spliceBorder(saved, borderId) ==
  LET index == IndexOfId(saved, borderId)
  IN IF index > 0 THEN Splice(saved, index) ELSE saved

\* checkSavedBorders without the eviction of an all-hidden border
checkSavedBorders_NoEviction(saved, border) ==
  LET index == IndexOfId(saved, border.id)
  IN IF index > 0
       THEN [saved |-> [saved EXCEPT ![index] = border], check |-> TRUE]
       ELSE [saved |-> saved, check |-> FALSE]

checkSavedBorders(saved, border) ==
  IF countHide(border) = 4
    THEN [saved |-> spliceBorder(saved, border.id), check |-> TRUE]
    ELSE LET index == IndexOfId(saved, border.id)
         IN IF index > 0
              THEN [saved |-> [saved EXCEPT ![index] = border], check |-> TRUE]
              ELSE [saved |-> saved, check |-> FALSE]

clearBordersFromSelectionSettings(sel, borderId) ==
  LET index == IndexOfId(sel, borderId)
  IN IF index > 0 THEN [sel EXCEPT ![index].cellRange = NullRange] ELSE sel

RECURSIVE NullFrom(_, _)
NullFrom(sel, i) ==
  IF i > Len(sel) THEN 0
  ELSE IF sel[i].cellRange = NullRange THEN i
  ELSE NullFrom(sel, i + 1)

clearNullCellRange(sel) ==
  LET index == NullFrom(sel, 1)
  IN IF index > 0 THEN Splice(sel, index) ELSE sel

checkCustomSelectionsFromContextMenu(sel, border) ==
  \* toggleHiddenClass acts on the rendered lines only
  IndexOfId(sel, border.id) > 0

checkCustomSelections(sel, border, cellRange) ==
  LET index == IndexOfId(sel, border.id)
  IN IF index > 0
       THEN [sel |-> [sel EXCEPT ![index].cellRange = cellRange], check |-> TRUE]
       ELSE [sel |-> sel, check |-> FALSE]

addCustomSelection(sel, border, cellRange) ==
  Append(sel, [id |-> border.id, cellRange |-> cellRange])

\* insertBorderIntoSettings that pushes a visible border whether or not
\* checkSavedBorders found its id
insertBorderIntoSettings_AlwaysPushes(s, border) ==
  LET saved1 == checkSavedBorders(s.saved, border)
      saved2 == IF countHide(border) # 4 THEN Append(saved1.saved, border) ELSE saved1.saved
      cellRange == CellRange(<<border.row, border.col>>)
      sel1   == checkCustomSelections(s.sel, border, cellRange)
      sel2   == IF ~sel1.check THEN addCustomSelection(sel1.sel, border, cellRange)
                ELSE sel1.sel
  IN [s EXCEPT !.saved = saved2, !.sel = sel2]

insertBorderIntoSettings(s, border) ==
  LET saved1 == checkSavedBorders(s.saved, border)
      saved2 == IF ~saved1.check THEN Append(saved1.saved, border) ELSE saved1.saved
      cellRange == CellRange(<<border.row, border.col>>)
      sel1   == checkCustomSelections(s.sel, border, cellRange)
      sel2   == IF ~sel1.check THEN addCustomSelection(sel1.sel, border, cellRange)
                ELSE sel1.sel
  IN [s EXCEPT !.saved = saved2, !.sel = sel2]

\* is the object `border` of cell (row, col) an element of savedBorders after the
\* insertion: it is unless it was all hidden
Stored(saved, id) == IndexOfId(saved, id) > 0

\* removeAllBorders that leaves the cell's `borders` metadata in place
removeAllBorders_KeepsMeta(s, row, column) ==
  LET borderId == createId(row, column)
  IN [ saved  |-> spliceBorder(s.saved, borderId),
       sel    |-> clearNullCellRange(clearBordersFromSelectionSettings(s.sel, borderId)),
       meta   |-> s.meta,
       shared |-> s.shared ]

removeAllBorders(s, row, column) ==
  LET borderId == createId(row, column)
  IN [ saved  |-> spliceBorder(s.saved, borderId),
       sel    |-> clearNullCellRange(clearBordersFromSelectionSettings(s.sel, borderId)),
       meta   |-> removeCellMeta(s.meta, <<row, column>>),
       shared |-> s.shared \ {<<row, column>>} ]

prepareBorderFromCustomAdded(s, row, column, borderDescriptor) ==
  LET border == extendDefaultBorder(createEmptyBorders(row, column), borderDescriptor)
      s1 == [s EXCEPT !.meta = setCellMeta(@, <<row, column>>, border)]
      s2 == insertBorderIntoSettings(s1, border)
  IN [s2 EXCEPT !.shared = IF Stored(s2.saved, border.id)
                             THEN @ \cup {<<row, column>>}
                             ELSE @ \ {<<row, column>>}]

\* ---- selection range resolver

\* `next`, with the stores `s` it continues from evaluated first (loops below run
\* one iteration at a time)
After(s, next) == IF s.saved = s.saved THEN next ELSE next

Coords(row, col) == [row |-> row, col |-> col]

\* rangeEach(from, to, ...) nested in rangeEach: the cells of a rectangle in the
\* order the loops visit them (none when an end precedes its start)
RowMajor(r0, c0, r1, c1) ==
  IF r1 < r0 \/ c1 < c0 THEN <<>>
  ELSE LET w == c1 - c0 + 1
       IN [k \in 1..((r1 - r0 + 1) * w) |-> <<r0 + ((k - 1) \div w), c0 + ((k - 1) % w)>>]

ColMajor(r0, c0, r1, c1) ==
  IF r1 < r0 \/ c1 < c0 THEN <<>>
  ELSE LET h == r1 - r0 + 1
       IN [k \in 1..((c1 - c0 + 1) * h) |-> <<r0 + ((k - 1) % h), c0 + ((k - 1) \div h)>>]

RECURSIVE RemoveEach(_, _, _)
RemoveEach(s, cells, k) ==
  IF k > Len(cells) THEN s
  ELSE LET s1 == removeAllBorders(s, cells[k][1], cells[k][2])
       IN After(s1, RemoveEach(s1, cells, k + 1))

\* A row descriptor is a configuration entry with a `range`, or an object with its
\* own `from` and `to`; `own` is its own edge properties.
RowDescriptor(hasRange, from, to, own) ==
  [hasRange |-> hasRange, from |-> from, to |-> to, own |-> own]

\* the loop body with every named edge set on every boundary cell, whatever side
RangeCell_EverySide(s, range, borderDescriptor, rowIndex, colIndex) ==
  LET cell   == <<rowIndex, colIndex>>
      onEdge == \/ rowIndex = range.from.row \/ rowIndex = range.to.row
                \/ colIndex = range.from.col \/ colIndex = range.to.col
      empty  == createEmptyBorders(rowIndex, colIndex)
      border == [empty EXCEPT
                   !.top    = IF hasOwnProperty(borderDescriptor, "top")
                                THEN borderDescriptor.edges["top"] ELSE @,
                   !.bottom = IF hasOwnProperty(borderDescriptor, "bottom")
                                THEN borderDescriptor.edges["bottom"] ELSE @,
                   !.left   = IF hasOwnProperty(borderDescriptor, "left")
                                THEN borderDescriptor.edges["left"] ELSE @,
                   !.right  = IF hasOwnProperty(borderDescriptor, "right")
                                THEN borderDescriptor.edges["right"] ELSE @]
  IN IF onEdge
       THEN insertBorderIntoSettings([s EXCEPT !.meta = setCellMeta(@, cell, border)], border)
       ELSE s

\* the loop body that takes every cell of the range for a boundary cell
RangeCell_NoInterior(s, range, borderDescriptor, rowIndex, colIndex) ==
  RangeCell_EverySide(s, [from |-> Coords(rowIndex, colIndex),
                          to   |-> Coords(rowIndex, colIndex)],
                      borderDescriptor, rowIndex, colIndex)

\* the body of the two nested loops of prepareBorderFromCustomAddedRange
RangeCell(s, range, borderDescriptor, rowIndex, colIndex) ==
  LET cell     == <<rowIndex, colIndex>>
      onTop    == rowIndex = range.from.row
      onBottom == rowIndex = range.to.row
      onLeft   == colIndex = range.from.col
      onRight  == colIndex = range.to.col
      setTop    == onTop    /\ hasOwnProperty(borderDescriptor, "top")
      setBottom == onBottom /\ hasOwnProperty(borderDescriptor, "bottom")
      setLeft   == onLeft   /\ hasOwnProperty(borderDescriptor, "left")
      setRight  == onRight  /\ hasOwnProperty(borderDescriptor, "right")
      empty  == createEmptyBorders(rowIndex, colIndex)
      border == [empty EXCEPT
                   !.top    = IF setTop    THEN borderDescriptor.edges["top"]    ELSE @,
                   !.bottom = IF setBottom THEN borderDescriptor.edges["bottom"] ELSE @,
                   !.left   = IF setLeft   THEN borderDescriptor.edges["left"]   ELSE @,
                   !.right  = IF setRight  THEN borderDescriptor.edges["right"]  ELSE @]
      add == (IF onTop THEN 1 ELSE 0) + (IF onBottom THEN 1 ELSE 0)
             + (IF onLeft THEN 1 ELSE 0) + (IF onRight THEN 1 ELSE 0)
      metaSet == setTop \/ setBottom \/ setLeft \/ setRight
      s1 == IF metaSet THEN [s EXCEPT !.meta = setCellMeta(@, cell, border)] ELSE s
      s2 == IF add > 0 THEN insertBorderIntoSettings(s1, border) ELSE s1
  IN IF add > 0
       THEN [s2 EXCEPT !.shared = IF metaSet /\ Stored(s2.saved, border.id)
                                    THEN @ \cup {cell} ELSE @ \ {cell}]
       ELSE s2

RECURSIVE RangeEachCell(_, _, _, _, _)
RangeEachCell(s, range, borderDescriptor, cells, k) ==
  IF k > Len(cells) THEN s
  ELSE LET s1 == RangeCell(s, range, borderDescriptor, cells[k][1], cells[k][2])
       IN After(s1, RangeEachCell(s1, range, borderDescriptor, cells, k + 1))

prepareBorderFromCustomAddedRange(s, rowDecriptor, borderObject) ==
  LET range == [from |-> rowDecriptor.from, to |-> rowDecriptor.to]
      borderDescriptor == IF borderObject.defined THEN borderObject ELSE rowDecriptor.own
  IN RangeEachCell(s, range, borderDescriptor,
                   RowMajor(range.from.row, range.from.col, range.to.row, range.to.col), 1)

\* ---- context-menu edge operations

setBorder(s, row, column, place, remove) ==
  LET cell     == <<row, column>>
      fromMeta == hasBordersMeta(s.meta, cell) /\ getBordersMeta(s.meta, cell)[1].border
      read     == IF fromMeta THEN getBordersMeta(s.meta, cell)[1]
                  ELSE createEmptyBorders(row, column)
      bordersMeta == [read EXCEPT ![place] = IF remove THEN createSingleEmptyBorder
                                               ELSE createDefaultCustomBorder]
      \* the assignment writes into the object: it shows in the metadata it was read
      \* from and, when that object is also the savedBorders element, there too
      s1 == IF fromMeta
              THEN [s EXCEPT !.meta  = setCellMeta(@, cell, bordersMeta),
                             !.saved = IF cell \in s.shared
                                         THEN [@ EXCEPT ![IndexOfId(@, bordersMeta.id)] = bordersMeta]
                                         ELSE @]
              ELSE s
  IN IF remove /\ countHide(bordersMeta) = 4
       THEN removeAllBorders(s1, row, column)
       ELSE LET customSelectionsChecker ==
                  checkCustomSelectionsFromContextMenu(s1.sel, bordersMeta)
                s2 == IF ~customSelectionsChecker
                        THEN insertBorderIntoSettings(s1, bordersMeta)
                        ELSE s1
            IN [s2 EXCEPT !.meta   = setCellMeta(@, cell, bordersMeta),
                          !.shared = IF ~customSelectionsChecker
                                       THEN IF Stored(s2.saved, bordersMeta.id)
                                              THEN @ \cup {cell} ELSE @ \ {cell}
                                       ELSE IF fromMeta THEN @ ELSE @ \ {cell}]

RECURSIVE SetBorderEach(_, _, _, _, _)
SetBorderEach(s, cells, place, remove, k) ==
  IF k > Len(cells) THEN s
  ELSE LET s1 == setBorder(s, cells[k][1], cells[k][2], place, remove)
       IN After(s1, SetBorderEach(s1, cells, place, remove, k + 1))

\* the cells the switch of prepareBorder visits for a named edge of a range
SideCells(start, end, place) ==
  CASE place = "top"    -> RowMajor(start.row, start.col, start.row, end.col)
    [] place = "right"  -> RowMajor(start.row, end.col, end.row, end.col)
    [] place = "bottom" -> RowMajor(end.row, start.col, end.row, end.col)
    [] place = "left"   -> RowMajor(start.row, start.col, end.row, start.col)
    [] OTHER            -> <<>>

\* one element {start, end} of `selected`
PrepareBorderOne(s, start, end, place, remove) ==
  IF start.row = end.row /\ start.col = end.col
    THEN IF place = "noBorders"
           THEN removeAllBorders(s, start.row, start.col)
           ELSE setBorder(s, start.row, start.col, place, remove)
    ELSE IF place = "noBorders"
           THEN RemoveEach(s, ColMajor(start.row, start.col, end.row, end.col), 1)
           ELSE SetBorderEach(s, SideCells(start, end, place), place, remove, 1)

RECURSIVE prepareBorderFrom(_, _, _, _, _)
prepareBorderFrom(s, selected, place, remove, k) ==
  IF k > Len(selected) THEN s
  ELSE LET s1 == PrepareBorderOne(s, selected[k].start, selected[k].end, place, remove)
       IN After(s1, prepareBorderFrom(s1, selected, place, remove, k + 1))

prepareBorder(s, selected, place, remove) == prepareBorderFrom(s, selected, place, remove, 1)

\* ---- facade

\* A selection element: an array [startRow, startColumn, endRow, endColumn]
\* (isArray) or a CellRange object with `from` and `to`.
ArraySel(from, to) == [isArray |-> TRUE,  from |-> from, to |-> to]
RangeSel(from, to) == [isArray |-> FALSE, from |-> from, to |-> to]

getTopLeftCorner(cell) ==
  Coords(Min(cell.from.row, cell.to.row), Min(cell.from.col, cell.to.col))
getBottomRightCorner(cell) ==
  Coords(Max(cell.from.row, cell.to.row), Max(cell.from.col, cell.to.col))

SetBordersOne(s, cell, borderObject) ==
  IF ~cell.isArray
    THEN LET topLeft     == getTopLeftCorner(cell)
             bottomRight == getBottomRightCorner(cell)
             s1 == RemoveEach(s, RowMajor(topLeft.row, topLeft.col,
                                          bottomRight.row, bottomRight.col), 1)
         IN prepareBorderFromCustomAddedRange(
              s1, RowDescriptor(FALSE, cell.from, cell.to, Descriptor(<<>>)), borderObject)
    ELSE IF cell.from.row = cell.to.row /\ cell.from.col = cell.to.col
      THEN prepareBorderFromCustomAdded(
             removeAllBorders(s, cell.from.row, cell.from.col),
             cell.from.row, cell.from.col, borderObject)
      ELSE LET s1 == RemoveEach(s, RowMajor(cell.from.row, cell.from.col,
                                            cell.to.row, cell.to.col), 1)
           IN prepareBorderFromCustomAddedRange(
                s1, RowDescriptor(FALSE, cell.from, cell.to, Descriptor(<<>>)), borderObject)

RECURSIVE setBordersFrom(_, _, _, _)
setBordersFrom(s, selection, borderObject, k) ==
  IF k > Len(selection) THEN s
  ELSE LET s1 == SetBordersOne(s, selection[k], borderObject)
       IN After(s1, setBordersFrom(s1, selection, borderObject, k + 1))

setBorders(s, selection, borderObject) == setBordersFrom(s, selection, borderObject, 1)

\* the savedBorders elements at (row, col), in savedBorders order
RECURSIVE BordersAt(_, _, _, _)
BordersAt(saved, row, col, i) ==
  IF i > Len(saved) THEN <<>>
  ELSE (IF saved[i].row = row /\ saved[i].col = col THEN <<saved[i]>> ELSE <<>>)
       \o BordersAt(saved, row, col, i + 1)

RECURSIVE BordersOver(_, _, _)
BordersOver(saved, cells, k) ==
  IF k > Len(cells) THEN <<>>
  ELSE BordersAt(saved, cells[k][1], cells[k][2], 1) \o BordersOver(saved, cells, k + 1)

GetBordersOne(saved, cell) ==
  IF ~cell.isArray
    THEN LET topLeft     == getTopLeftCorner(cell)
             bottomRight == getBottomRightCorner(cell)
         IN BordersOver(saved, RowMajor(topLeft.row, topLeft.col,
                                        bottomRight.row, bottomRight.col), 1)
    ELSE IF cell.from.row = cell.to.row /\ cell.from.col = cell.to.col
      THEN BordersAt(saved, cell.from.row, cell.from.col, 1)
      ELSE BordersOver(saved, RowMajor(cell.from.row, cell.from.col,
                                       cell.to.row, cell.to.col), 1)

\* getBorders that returns each border object once, whatever the selections
getBordersFrom_Deduplicated(saved, selection, k) ==
  SelectSeq(saved, LAMBDA border :
    \E j \in k..Len(selection) :
      /\ getTopLeftCorner(selection[j]).row <= border.row
      /\ border.row <= getBottomRightCorner(selection[j]).row
      /\ getTopLeftCorner(selection[j]).col <= border.col
      /\ border.col <= getBottomRightCorner(selection[j]).col)

RECURSIVE getBordersFrom(_, _, _)
getBordersFrom(saved, selection, k) ==
  IF k > Len(selection) THEN <<>>
  ELSE GetBordersOne(saved, selection[k]) \o getBordersFrom(saved, selection, k + 1)

getBorders(saved, selection) == getBordersFrom(saved, selection, 1)

\* clearBorders() without a selection
RECURSIVE ClearEachSaved(_, _)
ClearEachSaved(s, i) ==
  IF i > Len(s.saved) THEN s
  ELSE LET border == s.saved[i]
           cell   == <<border.row, border.col>>
           s1     == [s EXCEPT !.sel    = clearBordersFromSelectionSettings(@, border.id),
                               !.meta   = removeCellMeta(@, cell),
                               !.shared = @ \ {cell}]
       IN After(s1, ClearEachSaved(s1, i + 1))

\* `selection` is a sequence holding the argument, empty when there is none
clearBorders(s, selection) ==
  IF selection = <<>>
    THEN ClearEachSaved(s, 1)
    ELSE setBorders(s, selection[1], NoDescriptor)

\* ---- configuration

\* A configuration entry: with a `range` (from, to), or with `row` and `col`
\* (held in `from`); `own` is its own edge properties.
RangeEntry(from, to, edges) == RowDescriptor(TRUE, from, to, Descriptor(edges))
CellEntry(row, col, edges)  == RowDescriptor(FALSE, Coords(row, col), Coords(row, col), Descriptor(edges))

RECURSIVE createCustomBordersFrom(_, _, _)
createCustomBordersFrom(s, customBorders, k) ==
  IF k > Len(customBorders) THEN s
  ELSE LET customBorder == customBorders[k]
           s1 == IF customBorder.hasRange
                   THEN prepareBorderFromCustomAddedRange(s, customBorder, NoDescriptor)
                   ELSE prepareBorderFromCustomAdded(s, customBorder.from.row,
                                                     customBorder.from.col, customBorder.own)
       IN After(s1, createCustomBordersFrom(s1, customBorders, k + 1))

createCustomBorders(s, customBorders) == createCustomBordersFrom(s, customBorders, 1)

\* createCustomBorders(this.savedBorders): the array walked is the array written to
RECURSIVE CreateFromSaved(_, _, _)
CreateFromSaved(s, k, length) ==
  IF k > length \/ k > Len(s.saved) THEN s
  ELSE LET customBorder == s.saved[k]
           s1 == prepareBorderFromCustomAdded(s, customBorder.row, customBorder.col,
                                              AsDescriptor(customBorder))
       IN After(s1, CreateFromSaved(s1, k + 1, length))

\* hot.getSettings().customBorders: `true`, an array of entries, or (kind "saved")
\* the array that an earlier empty setting made this.savedBorders
SettingTrue           == [kind |-> "true",  entries |-> <<>>]
SettingArray(entries) == [kind |-> "array", entries |-> entries]
SettingSaved          == [kind |-> "saved", entries |-> <<>>]

\* changeBorderSettings that does not replace savedBorders by an empty setting
changeBorderSettings_KeepsSaved(s, customBorders) ==
  CASE customBorders.kind = "array" ->
         [s |-> createCustomBorders(s, customBorders.entries), settings |-> customBorders]
    [] OTHER ->
         [s |-> CreateFromSaved(s, 1, Len(s.saved)), settings |-> customBorders]

\* returns the stores and the setting (which the empty case ties to savedBorders)
changeBorderSettings(s, customBorders) ==
  CASE customBorders.kind = "array" ->
         IF customBorders.entries = <<>>
           THEN [s |-> [s EXCEPT !.saved = <<>>, !.shared = {}], settings |-> SettingSaved]
           ELSE [s |-> createCustomBorders(s, customBorders.entries), settings |-> customBorders]
    [] customBorders.kind = "saved" ->
         [s |-> CreateFromSaved(s, 1, Len(s.saved)), settings |-> customBorders]
    [] OTHER ->
         [s |-> CreateFromSaved(s, 1, Len(s.saved)), settings |-> customBorders]

disablePlugin(s) == clearBorders(s, <<>>)

updatePlugin(s, customBorders) == changeBorderSettings(disablePlugin(s), customBorders)

\* ---- inputs

Corners == {Coords(0, 0), Coords(1, 1), Coords(MaxRow, MaxCol)}

\* rectangles given by their top-left and bottom-right corners (points included)
Regions == {reg \in Corners \X Corners :
              reg[1].row <= reg[2].row /\ reg[1].col <= reg[2].col}

\* selections of setBorders and clearBorders: every region as an array, and the
\* regions ending at (1, 1) also as CellRange objects
Selections ==
  {ArraySel(reg[1], reg[2]) : reg \in Regions}
  \cup {RangeSel(reg[1], reg[2]) : reg \in {g \in Regions : g[2] = Coords(1, 1)}}

\* selected ranges of the context menu
MenuRegions == {reg \in Regions : reg[1] = Coords(0, 0) \/ reg[2] = Coords(1, 1)}

\* edge specifications, with the values the plugin's documentation shows
BorderObjects ==
  { Descriptor([top |-> EmptyObject]),
    Descriptor([top |-> EmptyObject, left |-> RedStyle]),
    Descriptor([right |-> EmptyString, bottom |-> EmptyObject]),
    Descriptor(<<>>) }

Places == Edges \cup {"noBorders"}

ConfigEntries ==
  { RangeEntry(Coords(0, 0), Coords(MaxRow, MaxCol), [top |-> EmptyObject, left |-> EmptyObject]),
    RangeEntry(Coords(0, 0), Coords(1, 1), [bottom |-> RedStyle]),
    CellEntry(1, 1, [left |-> RedStyle, right |-> EmptyObject,
                     top |-> EmptyString, bottom |-> EmptyString]),
    CellEntry(1, 0, [top |-> EmptyObject]) }

Settings ==
  {SettingTrue, SettingArray(<<>>)} \cup {SettingArray(<<e>>) : e \in ConfigEntries}

\* selection lists of getBorders: one selection, or a selection followed by a
\* single cell or by the range (0,0)-(1,1), which overlap many of the first ones
SecondSelections ==
  {ArraySel(c, c) : c \in Corners} \cup {RangeSel(Coords(0, 0), Coords(1, 1))}

SelectionLists ==
  {<<cell>> : cell \in Selections}
  \cup {<<cell, other>> : cell \in Selections, other \in SecondSelections}

\* ---- state machine

Stores == [saved |-> savedBorders, meta |-> cellMeta, sel |-> customSelections,
           shared |-> shared]

Call(op, selection, borderObject, place, remove) ==
  [op |-> op, selection |-> selection, borderObject |-> borderObject,
   place |-> place, remove |-> remove]

NoCall == Call("constructor", <<>>, NoDescriptor, "", FALSE)

NoScenario == [step |-> 0, cell |-> <<0, 0>>, e1 |-> "", e2 |-> ""]

EmptyStores == [saved |-> <<>>, meta |-> [c \in Cells |-> <<>>], sel |-> <<>>, shared |-> {}]

Init ==
  /\ savedBorders = <<>>
  /\ cellMeta = [c \in Cells |-> <<>>]
  /\ customSelections = <<>>
  /\ shared = {}
  /\ settings = SettingTrue
  /\ scenario = NoScenario
  /\ before = EmptyStores
  /\ lastCall = NoCall
  /\ nOps = 0

\* a call may be made: the budget allows it and no menu scenario is under way
CanCall(limit) == nOps < limit /\ scenario.step = 0

Becomes(s, call) ==
  /\ savedBorders' = s.saved
  /\ cellMeta' = s.meta
  /\ customSelections' = s.sel
  /\ shared' = s.shared
  /\ before' = Stores
  /\ lastCall' = call
  /\ nOps' = nOps + 1

SetBorders(limit) ==
  /\ CanCall(limit)
  /\ \E cell \in Selections, borderObject \in BorderObjects :
       \E s \in {setBorders(Stores, <<cell>>, borderObject)} :
         Becomes(s, Call("setBorders", <<cell>>, borderObject, "", FALSE))
  /\ UNCHANGED <<settings, scenario>>

ClearBorders(limit) ==
  /\ CanCall(limit)
  /\ \E s \in {clearBorders(Stores, <<>>)} :
       Becomes(s, Call("clearBorders", <<>>, NoDescriptor, "", FALSE))
  /\ UNCHANGED <<settings, scenario>>

ClearBordersSelection(limit) ==
  /\ CanCall(limit)
  /\ \E cell \in Selections :
       \E s \in {clearBorders(Stores, << <<cell>> >>)} :
         Becomes(s, Call("clearBordersSelection", <<cell>>, NoDescriptor, "", FALSE))
  /\ UNCHANGED <<settings, scenario>>

\* a context-menu command: the submenu items call prepareBorder with the selected
\* range, the item's place and whether that border is to be removed
PrepareBorder(limit) ==
  /\ CanCall(limit)
  /\ \E reg \in MenuRegions, place \in Places, remove \in BOOLEAN :
       /\ place = "noBorders" => ~remove
       /\ \E s \in {prepareBorder(Stores, << [start |-> reg[1], end |-> reg[2]] >>, place, remove)} :
            Becomes(s, Call("prepareBorder", <<ArraySel(reg[1], reg[2])>>, NoDescriptor,
                            place, remove))
  /\ UNCHANGED <<settings, scenario>>

\* getBorders reads this.savedBorders and writes nothing; what it returned is
\* getBorders(savedBorders, lastCall.selection) of the state it leaves
GetBorders(limit) ==
  /\ CanCall(limit)
  /\ \E selection \in SelectionLists :
       Becomes(Stores, Call("getBorders", selection, NoDescriptor, "", FALSE))
  /\ UNCHANGED <<settings, scenario>>

DisablePlugin(limit) ==
  /\ CanCall(limit)
  /\ \E s \in {disablePlugin(Stores)} :
       Becomes(s, Call("disablePlugin", <<>>, NoDescriptor, "", FALSE))
  /\ UNCHANGED <<settings, scenario>>

\* updateSettings: with a new customBorders setting, or with the setting as it is
UpdatePlugin(limit) ==
  /\ CanCall(limit)
  /\ \E customBorders \in Settings \cup {settings} :
       \E r \in {updatePlugin(Stores, customBorders)} :
         /\ Becomes(r.s, Call("updatePlugin", customBorders.entries, NoDescriptor,
                              customBorders.kind, FALSE))
         /\ settings' = r.settings
  /\ UNCHANGED scenario

Step(limit) ==
  \/ SetBorders(limit)
  \/ ClearBorders(limit)
  \/ ClearBordersSelection(limit)
  \/ PrepareBorder(limit)
  \/ GetBorders(limit)
  \/ DisablePlugin(limit)
  \/ UpdatePlugin(limit)

Next == Step(MaxOps)

\* every sequence of at most MaxOps calls
Spec == Init /\ [][Next]_vars

NextLong == Step(MaxLongOps)

\* every sequence of at most MaxLongOps calls
SpecLong == Init /\ [][NextLong]_vars

\* The menu scenario: on a cell that has no borders (no savedBorders element, no
\* `borders` metadata), add edge e1, add another edge e2, remove e1, remove e2,
\* each as one context-menu command on that single cell.
MenuCall(cell, place, remove) ==
  \E s \in {prepareBorder(Stores, << [start |-> Coords(cell[1], cell[2]),
                                      end   |-> Coords(cell[1], cell[2])] >>, place, remove)} :
    Becomes(s, Call("prepareBorder",
                    <<ArraySel(Coords(cell[1], cell[2]), Coords(cell[1], cell[2]))>>,
                    NoDescriptor, place, remove))

MenuStart ==
  /\ scenario.step = 0
  /\ \E corner \in Corners, e1 \in Edges, e2 \in Edges :
       LET cell == <<corner.row, corner.col>>
       IN /\ e1 # e2
          /\ ~Stored(savedBorders, createId(cell[1], cell[2]))
          /\ ~hasBordersMeta(cellMeta, cell)
          /\ MenuCall(cell, e1, FALSE)
          /\ scenario' = [step |-> 1, cell |-> cell, e1 |-> e1, e2 |-> e2]
  /\ UNCHANGED settings

MenuNext ==
  /\ scenario.step \in 1..3
  /\ \E cell \in {scenario.cell},
        place \in {IF scenario.step = 2 THEN scenario.e1 ELSE scenario.e2},
        remove \in {scenario.step >= 2} :
       MenuCall(cell, place, remove)
  /\ scenario' = [scenario EXCEPT !.step = @ + 1]
  /\ UNCHANGED settings

NextMenu ==
  \/ Step(MaxOps)
  \/ MenuStart
  \/ MenuNext

\* at most MaxOps calls, then the menu scenario
SpecMenu == Init /\ [][NextMenu]_vars

\* the metadata slot and the savedBorders element of a shared cell are one object
SharedIsOneObject ==
  \A c \in shared :
    /\ Stored(savedBorders, createId(c[1], c[2]))
    /\ cellMeta[c] = <<savedBorders[IndexOfId(savedBorders, createId(c[1], c[2]))]>>

\* ---- observations the properties are stated with

CellOf(border) == <<border.row, border.col>>

\* the savedBorders elements of a cell, the overlay entries of a cell
RecordsAt(saved, cell) == BordersAt(saved, cell[1], cell[2], 1)
EntriesOf(sel, cell)   == SelectSeq(sel, LAMBDA entry : entry.id = createId(cell[1], cell[2]))

AllHidden(border) == \A e \in Edges : Hide(border[e])
VisibleEdges(border) == {e \in Edges : ~Hide(border[e])}

StoredIds(saved) == {saved[i].id : i \in 1..Len(saved)}
OverlayIds(sel)  == {sel[k].id : k \in 1..Len(sel)}

\* C1: after any sequence of calls, savedBorders holds no border object whose
\* four edges top, right, bottom and left are all hidden.
C1_NoAllHiddenRecord ==
  \A i \in 1..Len(savedBorders) : ~AllHidden(savedBorders[i])

\* a menu command removed the last visible edge of a stored cell, whose border
\* object was evicted
C1_Witness ==
  /\ lastCall.op = "prepareBorder"
  /\ lastCall.remove
  /\ \E c \in Cells :
       /\ RecordsAt(before.saved, c) # <<>>
       /\ RecordsAt(savedBorders, c) = <<>>

\* C2: when clearBorders() without a selection (or disablePlugin, which calls it)
\* returns, savedBorders is empty, getBorders returns nothing for every selection,
\* and every border that was stored has its overlay entry desynced and its
\* cell's `borders` metadata removed.
C2_FullReset ==
  lastCall.op \in {"clearBorders", "disablePlugin"} =>
    /\ savedBorders = <<>>
    /\ \A cell \in Selections : getBorders(savedBorders, <<cell>>) = <<>>
    /\ \A i \in 1..Len(before.saved) :
         /\ ~hasBordersMeta(cellMeta, CellOf(before.saved[i]))
         /\ \A k \in 1..Len(customSelections) :
              customSelections[k].id = before.saved[i].id
                => customSelections[k].cellRange = NullRange

\* C3: between calls, the ids present in customSelections are the ids of the
\* border objects in savedBorders.
C3_OverlayIdsAreStoredIds ==
  OverlayIds(customSelections) = StoredIds(savedBorders)

\* ---- what a setBorders call names

IsSingleCell(cell) == cell.from = cell.to

NamedEdges(borderObject) ==
  IF borderObject.defined THEN DOMAIN borderObject.edges ELSE {}

\* a value of an edge specification merged over the default visible edge style
MergedOverDefault(value) ==
  IF IsNonEmptyObject(value) THEN Merge(createDefaultCustomBorder, value)
                             ELSE createDefaultCustomBorder

\* the round trip of one single-cell selection `cell` and its edge specification
RoundTrip(cell, borderObject) ==
  LET selectedBorders == getBorders(savedBorders, <<cell>>)
  IN /\ Len(selectedBorders) = 1
     /\ selectedBorders[1].row = cell.from.row
     /\ selectedBorders[1].col = cell.from.col
     /\ \A e \in Edges :
          selectedBorders[1][e] =
            IF e \in NamedEdges(borderObject)
              THEN MergedOverDefault(borderObject.edges[e])
              ELSE createSingleEmptyBorder

\* C4: setBorders([c], spec) for a single cell c and a spec naming at least one
\* edge, followed by getBorders([c]), returns exactly one record, of c, in which
\* each named edge is the spec's value merged over the default visible edge style
\* and every other edge is hidden.
C4_RoundTrip ==
  ( /\ lastCall.op = "setBorders"
    /\ IsSingleCell(lastCall.selection[1])
    /\ NamedEdges(lastCall.borderObject) # {} )
  => RoundTrip(lastCall.selection[1], lastCall.borderObject)

\* the cells a selection covers, and the sides of the selection a cell lies on
Covered(cell) ==
  LET topLeft     == getTopLeftCorner(cell)
      bottomRight == getBottomRightCorner(cell)
  IN {c \in Cells : /\ topLeft.row <= c[1] /\ c[1] <= bottomRight.row
                    /\ topLeft.col <= c[2] /\ c[2] <= bottomRight.col}

OnSide(cell, c, e) ==
  CASE e = "top"    -> c[1] = getTopLeftCorner(cell).row
    [] e = "bottom" -> c[1] = getBottomRightCorner(cell).row
    [] e = "left"   -> c[2] = getTopLeftCorner(cell).col
    [] e = "right"  -> c[2] = getBottomRightCorner(cell).col

\* a point: the coordinate form [r, c, r, c]
IsPoint(cell) == cell.isArray /\ IsSingleCell(cell)

\* the edges a setBorders call sets for cell c of its selection
EdgesSetFor(cell, borderObject, c) ==
  IF IsPoint(cell) THEN NamedEdges(borderObject)
  ELSE {e \in NamedEdges(borderObject) : OnSide(cell, c, e)}

\* the edges of cell c that are visible in savedBorders, or in its metadata
VisibleStored(saved, c) ==
  {e \in Edges : \E i \in 1..Len(saved) : CellOf(saved[i]) = c /\ ~Hide(saved[i][e])}
VisibleMeta(meta, c) ==
  {e \in Edges : hasBordersMeta(meta, c) /\ ~Hide(getBordersMeta(meta, c)[1][e])}

\* C5: setBorders(selection, spec) over a point or a rectangle replaces: after it
\* a targeted cell has no visible edge, in savedBorders or in its metadata, other
\* than the edges this call sets for it, and a cell of a rectangle that receives
\* no edge from the call has no savedBorders element and no `borders` metadata.
C5_ReplaceSemantics ==
  lastCall.op = "setBorders" =>
    \A c \in Covered(lastCall.selection[1]) :
      LET given == EdgesSetFor(lastCall.selection[1], lastCall.borderObject, c)
      IN /\ VisibleStored(savedBorders, c) \subseteq given
         /\ VisibleMeta(cellMeta, c) \subseteq given
         /\ (~IsPoint(lastCall.selection[1]) /\ given = {})
              => /\ RecordsAt(savedBorders, c) = <<>>
                 /\ ~hasBordersMeta(cellMeta, c)

\* a rectangle was assigned, and one of its cells lost a visible edge that the
\* call does not set for it: the cell is left without element and metadata
C5_Witness ==
  /\ lastCall.op = "setBorders"
  /\ ~IsSingleCell(lastCall.selection[1])
  /\ \E c \in Covered(lastCall.selection[1]) :
       /\ VisibleStored(before.saved, c) # {}
       /\ VisibleMeta(before.meta, c) # {}
       /\ EdgesSetFor(lastCall.selection[1], lastCall.borderObject, c) = {}
       /\ RecordsAt(savedBorders, c) = <<>>
       /\ ~hasBordersMeta(cellMeta, c)

\* C6: clearBorders(selection) leaves no savedBorders element for any cell the
\* selection covers, and leaves the savedBorders elements, the `borders` metadata
\* and the overlay entries of every cell outside the selection as they were.
C6_ClearSelectionFrame ==
  lastCall.op = "clearBordersSelection" =>
    /\ \A c \in Covered(lastCall.selection[1]) : RecordsAt(savedBorders, c) = <<>>
    /\ \A c \in Cells \ Covered(lastCall.selection[1]) :
         /\ RecordsAt(savedBorders, c) = RecordsAt(before.saved, c)
         /\ getBordersMeta(cellMeta, c) = getBordersMeta(before.meta, c)
         /\ EntriesOf(customSelections, c) = EntriesOf(before.sel, c)

\* C7: a cell has `borders` metadata exactly when savedBorders holds an element
\* for it, and then the two describe the same four edges.
C7_MetaMirrorsStore ==
  \A c \in Cells :
    /\ hasBordersMeta(cellMeta, c) <=> RecordsAt(savedBorders, c) # <<>>
    /\ hasBordersMeta(cellMeta, c) =>
         \A i \in 1..Len(savedBorders) :
           CellOf(savedBorders[i]) = c =>
             \A e \in Edges : savedBorders[i][e] = getBordersMeta(cellMeta, c)[1][e]

\* C8: a context-menu command on a rectangle (start its top-left, end its
\* bottom-right corner, start # end) with a named edge changes savedBorders,
\* metadata and overlay entries only of the cells on that side of the rectangle;
\* with 'noBorders' it leaves savedBorders without element for the rectangle.
C8_RangeEdgeTargeting ==
  (lastCall.op = "prepareBorder" /\ ~IsSingleCell(lastCall.selection[1])) =>
    IF lastCall.place = "noBorders"
      THEN \A c \in Covered(lastCall.selection[1]) : RecordsAt(savedBorders, c) = <<>>
      ELSE \A c \in Cells :
             ~(c \in Covered(lastCall.selection[1])
               /\ OnSide(lastCall.selection[1], c, lastCall.place))
             => /\ RecordsAt(savedBorders, c) = RecordsAt(before.saved, c)
                /\ getBordersMeta(cellMeta, c) = getBordersMeta(before.meta, c)
                /\ EntriesOf(customSelections, c) = EntriesOf(before.sel, c)

\* the last call applied the configuration of one range entry to an empty store
RangeApplied ==
  /\ lastCall.op = "updatePlugin"
  /\ lastCall.place = "array"
  /\ Len(lastCall.selection) = 1
  /\ lastCall.selection[1].hasRange
  /\ before.saved = <<>>

\* C9: a range entry of the configuration applied to an empty store leaves each
\* cell of the rectangle with exactly those named edges visible whose side of the
\* rectangle the cell lies on (two on a corner when both are named), in a single
\* savedBorders element, and leaves a cell with no such edge without element.
C9_CornerDoubleEdge ==
  RangeApplied =>
    LET entry == lastCall.selection[1]
        rect  == ArraySel(entry.from, entry.to)
    IN \A c \in Covered(rect) :
         LET named == {e \in NamedEdges(entry.own) : OnSide(rect, c, e)}
         IN /\ VisibleStored(savedBorders, c) = named
            /\ Len(RecordsAt(savedBorders, c)) = IF named = {} THEN 0 ELSE 1

\* {top, left} over (0,0)-(MaxRow,MaxCol): (0,0) has top and left, (0,1) only top,
\* (1,0) only left, (1,1) no element
C9_Witness ==
  /\ RangeApplied
  /\ NamedEdges(lastCall.selection[1].own) = {"top", "left"}
  /\ lastCall.selection[1].to = Coords(MaxRow, MaxCol)
  /\ VisibleStored(savedBorders, <<0, 0>>) = {"top", "left"}
  /\ VisibleStored(savedBorders, <<0, 1>>) = {"top"}
  /\ VisibleStored(savedBorders, <<1, 0>>) = {"left"}
  /\ RecordsAt(savedBorders, <<1, 1>>) = <<>>

\* C10: in the menu scenario on a cell without borders (add e1, add e2, remove
\* e1, remove e2), after the third call the cell's border object is still in
\* savedBorders with only e2 visible, and after the fourth call the cell has no
\* savedBorders element and no `borders` metadata.
C10_MenuScenario ==
  /\ scenario.step = 3 =>
       /\ Len(RecordsAt(savedBorders, scenario.cell)) = 1
       /\ VisibleStored(savedBorders, scenario.cell) = {scenario.e2}
  /\ scenario.step = 4 =>
       /\ RecordsAt(savedBorders, scenario.cell) = <<>>
       /\ ~hasBordersMeta(cellMeta, scenario.cell)

\* ---- what a getBorders call returns

Unchanged ==
  /\ savedBorders = before.saved
  /\ cellMeta = before.meta
  /\ customSelections = before.sel

\* how many selections of the list cover cell c
CoveringCount(selection, c) ==
  Cardinality({k \in 1..Len(selection) : c \in Covered(selection[k])})

\* C11: getBorders returns a border object of savedBorders once for every
\* selection of the list that covers its cell (twice when two overlapping
\* selections cover it), returns nothing else, and changes neither savedBorders
\* nor the metadata nor the overlay.
C11_SelectionScoped ==
  lastCall.op = "getBorders" =>
    LET selectedBorders == getBorders(savedBorders, lastCall.selection)
    IN /\ Unchanged
       /\ \A c \in Cells :
            /\ Len(RecordsAt(selectedBorders, c))
                 = Len(RecordsAt(savedBorders, c)) * CoveringCount(lastCall.selection, c)
            /\ \A i \in 1..Len(selectedBorders) :
                 \E j \in 1..Len(savedBorders) : selectedBorders[i] = savedBorders[j]

\* two selections that both cover a stored cell: its border object comes twice
C11_Witness ==
  /\ lastCall.op = "getBorders"
  /\ Len(lastCall.selection) = 2
  /\ \E c \in Cells :
       /\ CoveringCount(lastCall.selection, c) = 2
       /\ Len(RecordsAt(savedBorders, c)) = 1
       /\ Len(RecordsAt(getBorders(savedBorders, lastCall.selection), c)) = 2

\* C12: for a single range selection, the border objects getBorders returns come
\* in the relative order they have in savedBorders.
C12_StoreOrder ==
  ( /\ lastCall.op = "getBorders"
    /\ Len(lastCall.selection) = 1
    /\ ~IsSingleCell(lastCall.selection[1]) )
  => LET selectedBorders == getBorders(savedBorders, lastCall.selection)
     IN \A i, j \in 1..Len(selectedBorders) :
          i < j => IndexOfId(savedBorders, selectedBorders[i].id)
                     < IndexOfId(savedBorders, selectedBorders[j].id)

\* ---- calls made twice in a row

SameStores(s, u) == s.saved = u.saved /\ s.meta = u.meta /\ s.sel = u.sel

\* C13: from every reachable state, removeAllBorders(row, col) called twice in a
\* row, and clearBorders() without a selection called twice in a row, leave
\* savedBorders, the metadata and the overlay as one call leaves them.
C13_Idempotence ==
  /\ \A c \in Cells :
       \A once \in {removeAllBorders(Stores, c[1], c[2])} :
         \A twice \in {removeAllBorders(once, c[1], c[2])} : SameStores(once, twice)
  /\ \A once \in {clearBorders(Stores, <<>>)} :
       \A twice \in {clearBorders(once, <<>>)} : SameStores(once, twice)

\* the part of C13 about clearBorders() alone
ClearBordersTwice ==
  \A once \in {clearBorders(Stores, <<>>)} :
    \A twice \in {clearBorders(once, <<>>)} : SameStores(once, twice)

\* ---- a range whose two corners are one cell

\* the savedBorders elements and the metadata of cell c are the same in s and u
SameAt(s, u, c) ==
  /\ RecordsAt(s.saved, c) = RecordsAt(u.saved, c)
  /\ getBordersMeta(s.meta, c) = getBordersMeta(u.meta, c)

\* C14: a specification applied through a range whose corners are both c (a
\* CellRange object given to setBorders, or a configuration entry with
\* range.from = range.to = c) leaves for c the savedBorders element and the
\* metadata that the same specification applied to c as a single cell leaves.
C14_ZeroAreaRangeIsPoint ==
  /\ ( /\ lastCall.op = "setBorders"
       /\ ~lastCall.selection[1].isArray
       /\ IsSingleCell(lastCall.selection[1]) )
     => LET corner == lastCall.selection[1].from
        IN \A asPoint \in {setBorders(before, <<ArraySel(corner, corner)>>,
                                      lastCall.borderObject)} :
             SameAt(Stores, asPoint, <<corner.row, corner.col>>)
  /\ \A corner \in Corners, borderObject \in BorderObjects :
       \A asRange \in {createCustomBorders(
                         Stores, <<RangeEntry(corner, corner, borderObject.edges)>>)} :
         \A asPoint \in {createCustomBorders(
                           Stores, <<CellEntry(corner.row, corner.col, borderObject.edges)>>)} :
           SameAt(asRange, asPoint, <<corner.row, corner.col>>)

\* ---- an empty configuration

EmptyApplied ==
  lastCall.op = "updatePlugin" /\ lastCall.place = "array" /\ lastCall.selection = <<>>

\* C15: changeBorderSettings with customBorders = [] leaves savedBorders empty and
\* the metadata of every cell as it was: from every reachable state, and in
\* updatePlugin, where it acts on the state that disablePlugin left.
C15_EmptyConfiguration ==
  /\ \A r \in {changeBorderSettings(Stores, SettingArray(<<>>))} :
       r.s.saved = <<>> /\ r.s.meta = cellMeta
  /\ EmptyApplied =>
       /\ savedBorders = <<>>
       /\ \A disabled \in {disablePlugin(before)} : cellMeta = disabled.meta

\* an empty configuration was applied while savedBorders held border objects
C15_Witness ==
  /\ EmptyApplied
  /\ before.saved # <<>>
  /\ savedBorders = <<>>

\* ---- context-menu edge operations, edge by edge

\* the last call was a menu command with a named edge; setBorder ran for cell c
SetBorderRanFor(c) ==
  /\ lastCall.op = "prepareBorder"
  /\ lastCall.place \in Edges
  /\ c \in Covered(lastCall.selection[1])
  /\ OnSide(lastCall.selection[1], c, lastCall.place)

\* C16: setBorder(row, col, place, remove) changes only the named edge: the other
\* three edges of the cell are visible or hidden after the call as they were
\* before it, in the savedBorders element and in the metadata, unless the call
\* removes the only visible edge (then the border object is evicted).
C16_MergeSemantics ==
  \A c \in Cells :
    SetBorderRanFor(c) =>
      /\ \/ lastCall.remove /\ VisibleStored(before.saved, c) \subseteq {lastCall.place}
         \/ VisibleStored(savedBorders, c) \ {lastCall.place}
              = VisibleStored(before.saved, c) \ {lastCall.place}
      /\ \/ lastCall.remove /\ VisibleMeta(before.meta, c) \subseteq {lastCall.place}
         \/ VisibleMeta(cellMeta, c) \ {lastCall.place}
              = VisibleMeta(before.meta, c) \ {lastCall.place}

\* ---- declarative range application, cell by cell

\* the range entries of the configuration, and the rectangle of an entry
RangeEntries == {entry \in ConfigEntries : entry.hasRange}
RectOf(entry) == ArraySel(entry.from, entry.to)

\* the cells of a rectangle that lie on none of its four sides
Interior(cell) == {c \in Covered(cell) : \A e \in Edges : ~OnSide(cell, c, e)}

\* savedBorders element, metadata and overlay entries of cell c are the same
SameCell(s, u, c) ==
  /\ RecordsAt(s.saved, c) = RecordsAt(u.saved, c)
  /\ getBordersMeta(s.meta, c) = getBordersMeta(u.meta, c)
  /\ EntriesOf(s.sel, c) = EntriesOf(u.sel, c)

\* the last call applied the configuration of one range entry
OneRangeApplied ==
  /\ lastCall.op = "updatePlugin"
  /\ lastCall.place = "array"
  /\ Len(lastCall.selection) = 1
  /\ lastCall.selection[1].hasRange

\* C17: prepareBorderFromCustomAddedRange leaves the savedBorders element, the
\* metadata and the overlay entry of every interior cell of its rectangle as they
\* were: from every reachable state (those that getBorders ends in have the
\* stores of the state before, and are left out), and in updatePlugin, where it
\* acts on the state that disablePlugin left.
C17_InteriorUntouched ==
  /\ lastCall.op # "getBorders" =>
       \A entry \in {e \in RangeEntries : Interior(RectOf(e)) # {}} :
         \A applied \in {prepareBorderFromCustomAddedRange(Stores, entry, NoDescriptor)} :
           \A c \in Interior(RectOf(entry)) : SameCell(applied, Stores, c)
  /\ OneRangeApplied =>
       \A disabled \in {disablePlugin(before)} :
         \A c \in Interior(RectOf(lastCall.selection[1])) : SameCell(Stores, disabled, c)

\* a range entry was applied over a rectangle whose interior cell (1,1) held a
\* border object, and holds it still
C17_Witness ==
  /\ OneRangeApplied
  /\ <<1, 1>> \in Interior(RectOf(lastCall.selection[1]))
  /\ RecordsAt(before.saved, <<1, 1>>) # <<>>
  /\ RecordsAt(savedBorders, <<1, 1>>) = RecordsAt(before.saved, <<1, 1>>)

\* the edges of cell c that a range entry sets: named, and on a side c lies on
EntrySets(entry, c) == {e \in NamedEdges(entry.own) : OnSide(RectOf(entry), c, e)}

\* in savedBorders, the edges of cell c that the entry does not set are visible
\* in s exactly when they are visible in u
OtherEdgesKept(s, u, entry, c) ==
  VisibleStored(s.saved, c) \ EntrySets(entry, c)
    = VisibleStored(u.saved, c) \ EntrySets(entry, c)

\* C18: a declarative range application sets, for every cell of the rectangle,
\* only the named edges of the sides the cell lies on; every other edge of the
\* cell stays in savedBorders as it was, so an edge made visible earlier is not
\* removed by an application that does not name it.
C18_OnlyBoundaryEdgesSet ==
  /\ \A entry \in RangeEntries :
       \A applied \in {prepareBorderFromCustomAddedRange(Stores, entry, NoDescriptor)} :
         \A c \in Covered(RectOf(entry)) : OtherEdgesKept(applied, Stores, entry, c)
  /\ OneRangeApplied =>
       \A disabled \in {disablePlugin(before)} :
         \A c \in Covered(RectOf(lastCall.selection[1])) :
           OtherEdgesKept(Stores, disabled, lastCall.selection[1], c)

\* ---- the two-phase removal of overlay entries

NullEntries(sel) == {k \in 1..Len(sel) : sel[k].cellRange = NullRange}

\* C19: from every reachable state, when removeAllBorders(row, col) returns the
\* overlay holds no entry with the cell's id and no entry with a null range; and
\* a call of clearNullCellRange removes at most one entry.
C19_NoDeadEntries ==
  /\ \A c \in Cells :
       \A removed \in {removeAllBorders(Stores, c[1], c[2])} :
         /\ EntriesOf(removed.sel, c) = <<>>
         /\ NullEntries(removed.sel) = {}
  /\ Len(customSelections) - Len(clearNullCellRange(customSelections)) <= 1

\* C20: no two elements of savedBorders have the same id (the same row and col).
C20_UniqueById ==
  \A i, j \in 1..Len(savedBorders) :
    (savedBorders[i].id = savedBorders[j].id
       \/ CellOf(savedBorders[i]) = CellOf(savedBorders[j])) => i = j

\* a configuration entry for a cell that had a border object: the new object took
\* the place of the old one, at its index, and savedBorders did not grow
C20_Witness ==
  /\ lastCall.op = "updatePlugin"
  /\ Len(savedBorders) = Len(before.saved)
  /\ \E i \in 1..Len(savedBorders) :
       /\ savedBorders[i].id = before.saved[i].id
       /\ savedBorders[i] # before.saved[i]

\* ---- the toggle path of setBorder

\* setBorder ran for cell c alone, found an overlay entry with the cell's id and
\* did not evict: it skipped insertBorderIntoSettings and wrote the metadata
ToggledFor(c) ==
  /\ SetBorderRanFor(c)
  /\ IsPoint(lastCall.selection[1])
  /\ checkCustomSelectionsFromContextMenu(before.sel, createEmptyBorders(c[1], c[2]))
  /\ hasBordersMeta(cellMeta, c)

\* savedBorders holds one border object for cell c, and its four edges are those
\* of the border object in the cell's metadata
StoreIsCurrent(c) ==
  /\ Len(RecordsAt(savedBorders, c)) = 1
  /\ \A e \in Edges : RecordsAt(savedBorders, c)[1][e] = getBordersMeta(cellMeta, c)[1][e]

\* C21: after a context-menu edge operation that found an overlay entry for the
\* cell and skipped insertBorderIntoSettings, savedBorders holds a border object
\* for the cell with the four edges written to its metadata; and a cell that shows
\* a visible edge in its metadata after a menu operation has a savedBorders element.
C21_StoreCurrentOnToggle ==
  \A c \in Cells :
    /\ ToggledFor(c) => StoreIsCurrent(c)
    /\ (SetBorderRanFor(c) /\ VisibleMeta(cellMeta, c) # {}) =>
         RecordsAt(savedBorders, c) # <<>>

====
